---- MODULE Spec2Model ----
(***************************************************************************)
(* Vendor performance analysis: the bulk loader (src/logs/ingestion_db.py) *)
(* and the vendor summary builder (src/get_vendor_summary.py).             *)
(*                                                                         *)
(* LoaderSpec models load_raw_data over a directory of delimited files.    *)
(* Spec models the uses of get_vendor_summary.py, as a script and as a     *)
(* module, over a store holding the four base tables; the file does not    *)
(* compile, so every use ends at its IndentationError. The query and       *)
(* clean_data are defined as the statements of the two function bodies.    *)
(***************************************************************************)
EXTENDS Integers, Sequences, FiniteSets, TLC

VARIABLES
    \* ---- bulk loader ----
    listing,      \* os.listdir('data'): sequence of [name, lines, gz]
    store,        \* inventory.db as the loader sees it: table name -> table
    lpc,          \* "idle", "running", "done", "aborted"
    cursor,       \* position of the for loop in the listing
    log,          \* logs/ingestion.log (append mode)
    logMark,      \* Len(log) when the current run started
    reads,        \* names handed to pd.read_csv during the current run
    lerror,       \* the exception that left load_raw_data, or "none"
    run,          \* number of runs of load_raw_data started
    prevStore,    \* the store as it was when the current run started
    dropFirst,    \* whether a failed replace has already dropped the old table
    \* ---- vendor summary builder ----
    db,           \* inventory.db: purchases, purchase_prices, Sales, vendor_invoice, vendor_sales_summary
    df,           \* the DataFrame a caller of create_vendor_summary / clean_data got back, if any
    cstatus,      \* a caller's use of the module: "none", "returned", or the exception it got
    mpc,          \* the script: "start", "failed", "done"
    merror        \* the exception that ended the script, or "none"

lvars == <<listing, store, lpc, cursor, log, logMark, reads, lerror, run, prevStore, dropFirst>>
svars == <<db, df, cstatus, mpc, merror>>
vars == <<listing, store, lpc, cursor, log, logMark, reads, lerror, run, prevStore, dropFirst,
          db, df, cstatus, mpc, merror>>

\* ---------------------------------------------------------------------------
\* Bounds
\* ---------------------------------------------------------------------------
MaxFiles == 3
MaxRuns == 2
MaxPurchases == 2
MaxPrices == 2
MaxSales == 1
MaxInvoices == 1

\* ---------------------------------------------------------------------------
\* Text: a string is a sequence of one-character strings
\* ---------------------------------------------------------------------------
Marker == <<".", "c", "s", "v">>

\* Python's `sub in s`
Contains(sub, s) ==
    \E i \in 0..(Len(s) - Len(sub)) : SubSeq(s, i + 1, i + Len(sub)) = sub

\* Python's s[:-4]
StripLast4(s) == IF Len(s) <= 4 THEN <<>> ELSE SubSeq(s, 1, Len(s) - 4)

\* the selection test of the loop, '.csv' in file
Selected(name) == Contains(Marker, name)

\* ---------------------------------------------------------------------------
\* Files of the data directory
\* ---------------------------------------------------------------------------
FileNames ==
    { <<"a", ".", "c", "s", "v">>,
      <<"a", ".", "t", "x", "t">>,
      <<"t", ".", "c", ".", "c", "s", "v">>,
      <<"t", ".", "c", "s", "v", ".", "a">>,
      <<"a", ".", "c", "s", "v", ".", "g", "z">> }

\* the bytes of a file: its lines (a line is its fields, the first line is
\* the header), stored as plain text or gzip-compressed
FileContents ==
    { [lines |-> << <<"x", "y">>, <<"1", "2">>, <<"3", "4">> >>, gz |-> FALSE],
      [lines |-> << <<"y", "x">>, <<"5", "6">> >>, gz |-> FALSE],
      [lines |-> << <<"x", "X">>, <<"7", "8">> >>, gz |-> FALSE],
      [lines |-> << >>, gz |-> FALSE],
      [lines |-> << <<"x", "y">>, <<"1", "2">>, <<"3", "4">> >>, gz |-> TRUE] }

GzSuffix == <<".", "g", "z">>

\* Python's s.endswith(suffix)
EndsWith(s, suffix) ==
    Len(s) >= Len(suffix) /\ SubSeq(s, Len(s) - Len(suffix) + 1, Len(s)) = suffix

\* read_csv's default compression = 'infer': gzip for a path ending in .gz
InferredGzip(name) == EndsWith(name, GzSuffix)

Lower(c) == IF c = "X" THEN "x" ELSE IF c = "Y" THEN "y" ELSE c

\* pd.read_csv('data/' + file): the path decides the decompression, then the
\* header row names the columns and the other lines are the rows, numbered
\* by a RangeIndex. A file of no bytes raises EmptyDataError, plain text
\* under a .gz name BadGzipFile, gzip bytes under another name
\* UnicodeDecodeError
read_csv(file) ==
    IF file.lines = <<>> /\ ~file.gz
    THEN [ok |-> FALSE, error |-> "EmptyDataError"]
    ELSE IF InferredGzip(file.name) /\ ~file.gz
    THEN [ok |-> FALSE, error |-> "BadGzipFile"]
    ELSE IF ~InferredGzip(file.name) /\ file.gz
    THEN [ok |-> FALSE, error |-> "UnicodeDecodeError"]
    ELSE [ok |-> TRUE,
          columns |-> Head(file.lines),
          index |-> [i \in 1..(Len(file.lines) - 1) |-> i - 1],
          rows |-> Tail(file.lines)]

\* SQLite compares column names without case: CREATE TABLE fails on x and X
Writable(frame) ==
    \A i, j \in 1..Len(frame.columns) :
        Lower(frame.columns[i]) = Lower(frame.columns[j]) => i = j

\* DataFrame.to_sql(..., index = flag): the table the frame is written as
to_sql(frame, index) ==
    IF index
    THEN [columns |-> <<"index">> \o frame.columns,
          rows |-> [i \in 1..Len(frame.rows) |-> <<frame.index[i]>> \o frame.rows[i]]]
    ELSE [columns |-> frame.columns, rows |-> frame.rows]

Put(st, name, table) ==
    [n \in (DOMAIN st) \cup {name} |-> IF n = name THEN table ELSE st[n]]

Drop(st, name) == [n \in (DOMAIN st) \ {name} |-> st[n]]

\* if_exists = 'append' in place of 'replace'
ingest_db_append(frame, table_name, st) ==
    IF table_name \in DOMAIN st
    THEN Put(st, table_name,
             [columns |-> st[table_name].columns,
              rows |-> st[table_name].rows \o to_sql(frame, FALSE).rows])
    ELSE Put(st, table_name, to_sql(frame, FALSE))

\* ingest_db: df.to_sql(table_name, con = engine, if_exists = 'replace', index = False)
ingest_db(frame, table_name, st) == Put(st, table_name, to_sql(frame, FALSE))

\* ---------------------------------------------------------------------------
\* load_raw_data
\* ---------------------------------------------------------------------------
LogIngesting(name) == [msg |-> "Ingesting", file |-> name]
LogComplete == [msg |-> "Ingestion Complete", file |-> <<>>]
LogTotalTime == [msg |-> "Total Time Taken", file |-> <<>>]

\* a loop body that catches the failure and goes on to the next file
FileStepSkipping(file, st, dropped) ==
    IF ~Selected(file.name)
    THEN [status |-> "next", store |-> st, read |-> FALSE, logged |-> FALSE, error |-> "none"]
    ELSE LET frame == read_csv(file) IN
         IF ~frame.ok
         THEN [status |-> "next", store |-> st, read |-> TRUE, logged |-> FALSE, error |-> "none"]
         ELSE IF ~Writable(frame)
         THEN [status |-> "next", store |-> st, read |-> TRUE, logged |-> TRUE, error |-> "none"]
         ELSE [status |-> "next", store |-> ingest_db(frame, StripLast4(file.name), st),
               read |-> TRUE, logged |-> TRUE, error |-> "none"]

\* one iteration of the for loop (lines 26-30): what it does to the store,
\* whether it read and logged, and whether an exception left it
FileStep(file, st, dropped) ==
    IF ~Selected(file.name)
    THEN [status |-> "next", store |-> st, read |-> FALSE, logged |-> FALSE, error |-> "none"]
    ELSE LET frame == read_csv(file) IN
         IF ~frame.ok
         THEN [status |-> "raise", store |-> st, read |-> TRUE, logged |-> FALSE,
               error |-> frame.error]
         ELSE IF ~Writable(frame)
         THEN [status |-> "raise",
               store |-> IF dropped THEN Drop(st, StripLast4(file.name)) ELSE st,
               read |-> TRUE, logged |-> TRUE, error |-> "OperationalError"]
         ELSE [status |-> "next", store |-> ingest_db(frame, StripLast4(file.name), st),
               read |-> TRUE, logged |-> TRUE, error |-> "none"]

\* start = time.time(); the loop begins
LoadStart ==
    /\ lpc \in {"idle", "done", "aborted"}
    /\ run < MaxRuns
    /\ lpc' = "running"
    /\ cursor' = 1
    /\ run' = run + 1
    /\ prevStore' = store
    /\ logMark' = Len(log)
    /\ reads' = <<>>
    /\ lerror' = "none"
    /\ UNCHANGED <<listing, store, log, dropFirst>>
    /\ UNCHANGED svars

\* the loop body on the file under the cursor
LoadFile ==
    /\ lpc = "running"
    /\ cursor <= Len(listing)
    /\ LET file == listing[cursor]
           step == FileStep(file, store, dropFirst)
       IN /\ store' = step.store
          /\ reads' = IF step.read THEN Append(reads, file.name) ELSE reads
          /\ log' = IF step.logged THEN Append(log, LogIngesting(file.name)) ELSE log
          /\ IF step.status = "raise"
             THEN /\ lpc' = "aborted"
                  /\ lerror' = step.error
                  /\ cursor' = cursor
             ELSE /\ lpc' = "running"
                  /\ lerror' = lerror
                  /\ cursor' = cursor + 1
    /\ UNCHANGED <<listing, logMark, run, prevStore, dropFirst>>
    /\ UNCHANGED svars

\* after the loop: the two closing log lines
LoadFinish ==
    /\ lpc = "running"
    /\ cursor > Len(listing)
    /\ log' = log \o <<LogComplete, LogTotalTime>>
    /\ lpc' = "done"
    /\ UNCHANGED <<listing, store, cursor, logMark, reads, lerror, run, prevStore, dropFirst>>
    /\ UNCHANGED svars

Files ==
    { [name |-> n, lines |-> c.lines, gz |-> c.gz] : n \in FileNames, c \in FileContents }

Distinct(s) == \A i, j \in 1..Len(s) : s[i].name = s[j].name => i = j

Listings ==
    UNION { { s \in [1..n -> Files] : Distinct(s) } : n \in 0..MaxFiles }

LoaderInit ==
    /\ listing \in Listings
    /\ store = << >>
    /\ lpc = "idle"
    /\ cursor = 1
    /\ log = <<>>
    /\ logMark = 0
    /\ reads = <<>>
    /\ lerror = "none"
    /\ run = 0
    /\ prevStore = << >>
    /\ dropFirst \in BOOLEAN

SummaryIdle ==
    /\ db = << >>
    /\ df = << >>
    /\ cstatus = "none"
    /\ mpc = "start"
    /\ merror = "none"

LInit == LoaderInit /\ SummaryIdle

LNext == LoadStart \/ LoadFile \/ LoadFinish

LoaderSpec == LInit /\ [][LNext]_vars

\* ---------------------------------------------------------------------------
\* Cell values of a DataFrame: a finite number num/den, +-infinity, NaN,
\* SQL NULL / Python None, or text
\* ---------------------------------------------------------------------------
Null == [null |-> TRUE]
NaN == [nan |-> TRUE]
Inf(sign) == [inf |-> sign]
Num(n) == [num |-> n, den |-> 1]
Str(s) == [str |-> s]

IsText(c) == DOMAIN c = {"str"}
IsFinite(c) == DOMAIN c = {"num", "den"}
IsInf(c) == DOMAIN c = {"inf"}
\* pandas isna(): None and NaN are both missing values
IsNull(c) == c = Null \/ c = NaN

Abs(n) == IF n < 0 THEN -n ELSE n
Sign(n) == IF n < 0 THEN -1 ELSE 1

RECURSIVE Gcd(_, _)
Gcd(a, b) == IF b = 0 THEN a ELSE Gcd(b, a % b)

\* the number n/d, d # 0, in lowest terms with a positive denominator
Fin(n, d) ==
    LET g == Gcd(Abs(n), Abs(d)) IN
    [num |-> Sign(d) * (n \div g), den |-> Abs(d) \div g]

\* float subtraction; a missing operand gives NaN
Sub(a, b) ==
    IF IsFinite(a) /\ IsFinite(b)
    THEN Fin(a.num * b.den - b.num * a.den, a.den * b.den)
    ELSE NaN

\* float division as numpy does it on a float64 column: x/0 is +-inf,
\* 0/0 is NaN, and nothing is raised
Div(a, b) ==
    IF IsFinite(a) /\ IsFinite(b)
    THEN IF b.num = 0
         THEN IF a.num = 0 THEN NaN ELSE Inf(Sign(a.num))
         ELSE Fin(a.num * b.den, a.den * b.num)
    ELSE NaN

\* x * 100
Times100(a) ==
    IF IsFinite(a) THEN Fin(a.num * 100, a.den)
    ELSE IF IsInf(a) THEN a
    ELSE NaN

\* str.strip() of one string
RECURSIVE LStrip(_)
LStrip(s) == IF s # <<>> /\ Head(s) = " " THEN LStrip(Tail(s)) ELSE s
RECURSIVE RStrip(_)
RStrip(s) ==
    IF s # <<>> /\ s[Len(s)] = " " THEN RStrip(SubSeq(s, 1, Len(s) - 1)) ELSE s
Strip(s) == RStrip(LStrip(s))

DigitValue == ("0" :> 0) @@ ("1" :> 1) @@ ("2" :> 2) @@ ("3" :> 3) @@ ("4" :> 4) @@
              ("5" :> 5) @@ ("6" :> 6) @@ ("7" :> 7) @@ ("8" :> 8) @@ ("9" :> 9)

IsDigits(s) == s # <<>> /\ \A i \in 1..Len(s) : s[i] \in DOMAIN DigitValue

RECURSIVE ParseDigits(_)
ParseDigits(s) ==
    IF s = <<>> THEN 0
    ELSE 10 * ParseDigits(SubSeq(s, 1, Len(s) - 1)) + DigitValue[s[Len(s)]]

\* astype('float64') of one cell: text is parsed, None becomes NaN
CanFloat(c) == IsText(c) => IsDigits(c.str)
ToFloat(c) ==
    IF IsText(c) THEN Num(ParseDigits(c.str))
    ELSE IF c = Null THEN NaN
    ELSE c

\* ---------------------------------------------------------------------------
\* The base tables of inventory.db
\* ---------------------------------------------------------------------------
PurchaseRow(v, n, b, d, p, q, a) ==
    [VendorNumber |-> v, VendorName |-> n, Brand |-> b, Description |-> d,
     PurchasePrice |-> p, Quantity |-> q, Dollars |-> a]
PriceRow(b, p, v) == [Brand |-> b, Price |-> p, Volume |-> v]
SalesRow(v, b, q, d, p, t) ==
    [VendorNo |-> v, Brand |-> b, SalesQuantity |-> q, SalesDollars |-> d,
     SalesPrice |-> p, ExciseTax |-> t]
InvoiceRow(v, f) == [VendorNumber |-> v, Freight |-> f]

PurchaseRows ==
    << PurchaseRow(1, Str(<<"A">>), 1, Str(<<"d">>), 1, 1, 1),
       PurchaseRow(1, Str(<<"A">>), 1, Str(<<"d">>), 2, 2, 4),
       PurchaseRow(1, Str(<<" ", "A">>), 1, Str(<<"d">>), 1, 1, 1),
       PurchaseRow(1, Str(<<"A">>), 1, Str(<<"d", " ">>), 1, 3, 3),
       PurchaseRow(1, Str(<<"A">>), 2, Str(<<"d">>), 0, 5, 0),
       PurchaseRow(2, Null, 1, Str(<<"d">>), 1, 0, 0),
       PurchaseRow(2, Str(<<"B">>), 2, Str(<<"e">>), 1, 1, 1),
       PurchaseRow(2, Str(<<"B">>), 1, Str(<<"e">>), -1, 1, -1) >>

PriceRows ==
    << PriceRow(1, 1, Str(<<"7", "5">>)),
       PriceRow(1, 2, Str(<<"x">>)),
       PriceRow(2, 1, Null) >>

SalesRows ==
    << SalesRow(1, 1, 1, 2, 2, 1),
       SalesRow(2, 1, 0, 0, 0, 0) >>

InvoiceRows ==
    << InvoiceRow(1, 1),
       InvoiceRow(2, 2) >>

\* the tables of at most max rows drawn from the candidate rows; the rows of
\* a table are listed in candidate order (no query result of this program
\* depends on the order of a base table's rows)
TablesOf(cands, max) ==
    UNION { { [i \in 1..n |-> cands[ix[i]]] :
                ix \in { f \in [1..n -> DOMAIN cands] :
                           \A i \in 1..(n - 1) : f[i] <= f[i + 1] } } : n \in 0..max }

\* the table a previous run of the script left in the store
StaleSummary == [columns |-> <<"VendorNumber", "Old">>, rows |-> << <<Num(9), Num(9)>> >>]

\* ---------------------------------------------------------------------------
\* create_vendor_summary: the query
\*
\* The definitions of this section and of the next state what the
\* statements of the two function bodies compute (the query of lines 15-74,
\* lines 82-97 of clean_data). No action uses them: the file does not
\* compile, so neither function is ever defined or called.
\* ---------------------------------------------------------------------------
RECURSIVE SumOver(_, _)
\* SUM of the function val over the index set S
SumOver(S, val) ==
    IF S = {} THEN 0
    ELSE LET i == CHOOSE x \in S : TRUE IN val[i] + SumOver(S \ {i}, val)

\* FreightSummary: SUM(Freight) ... GROUP BY VendorNumber
FreightSummary(d) ==
    LET inv == d.vendor_invoice
        rowsOf(v) == { i \in DOMAIN inv : inv[i].VendorNumber = v }
    IN { [VendorNumber |-> v,
          FreightCost |-> Num(SumOver(rowsOf(v), [i \in DOMAIN inv |-> inv[i].Freight]))] :
         v \in { inv[i].VendorNumber : i \in DOMAIN inv } }

\* WHERE p.PurchasePrice > 0
PriceFilter(row) == row.PurchasePrice > 0

\* purchases p JOIN purchase_prices pp ON p.Brand = pp.Brand WHERE ...
PurchaseJoin(d) ==
    { pr \in (DOMAIN d.purchases) \X (DOMAIN d.purchase_prices) :
        /\ d.purchases[pr[1]].Brand = d.purchase_prices[pr[2]].Brand
        /\ PriceFilter(d.purchases[pr[1]]) }

\* GROUP BY p.VendorNumber, p.VendorName, p.Brand, p.Description,
\*          p.PurchasePrice, pp.Price, pp.Volume
PurchaseKey(d, pr) ==
    LET p == d.purchases[pr[1]]
        pp == d.purchase_prices[pr[2]]
    IN [VendorNumber |-> p.VendorNumber, VendorName |-> p.VendorName, Brand |-> p.Brand,
        Description |-> p.Description, PurchasePrice |-> p.PurchasePrice,
        ActualPrice |-> pp.Price, Volume |-> pp.Volume]

PurchaseSummary(d) ==
    LET J == PurchaseJoin(d)
        group(k) == { pr \in J : PurchaseKey(d, pr) = k }
    IN { [key |-> k,
          TotalPurchaseQuantity |->
              SumOver(group(k), [pr \in J |-> d.purchases[pr[1]].Quantity]),
          TotalPurchaseDollars |->
              SumOver(group(k), [pr \in J |-> d.purchases[pr[1]].Dollars])] :
         k \in { PurchaseKey(d, pr) : pr \in J } }

\* GROUP BY VendorNo, Brand
SalesKey(row) == <<row.VendorNo, row.Brand>>

SalesSummary(d) ==
    LET sl == d.Sales
        group(k) == { i \in DOMAIN sl : SalesKey(sl[i]) = k }
    IN { [VendorNo |-> k[1], Brand |-> k[2],
          TotalSalesQuantity |-> Num(SumOver(group(k), [i \in DOMAIN sl |-> sl[i].SalesQuantity])),
          TotalSalesDollars |-> Num(SumOver(group(k), [i \in DOMAIN sl |-> sl[i].SalesDollars])),
          TotalSalesPrice |-> Num(SumOver(group(k), [i \in DOMAIN sl |-> sl[i].SalesPrice])),
          TotalExciseTax |-> Num(SumOver(group(k), [i \in DOMAIN sl |-> sl[i].ExciseTax]))] :
         k \in { SalesKey(sl[i]) : i \in DOMAIN sl } }

NoSales ==
    [TotalSalesQuantity |-> Null, TotalSalesDollars |-> Null,
     TotalSalesPrice |-> Null, TotalExciseTax |-> Null]
NoFreight == [FreightCost |-> Null]

\* the right side of a LEFT JOIN for one left row: its matches, or one
\* all-NULL row when there is none
LeftJoinSide(matches, nullRow) == IF matches = {} THEN {nullRow} ELSE matches

\* FROM PurchaseSummary ps LEFT JOIN SalesSummary ss ON ... LEFT JOIN FreightSummary fs ON ...
JoinedRows(d) ==
    UNION { { <<ps, ss, fs>> :
                ss \in LeftJoinSide({ x \in SalesSummary(d) :
                                        /\ ps.key.VendorNumber = x.VendorNo
                                        /\ ps.key.Brand = x.Brand }, NoSales),
                fs \in LeftJoinSide({ x \in FreightSummary(d) :
                                        ps.key.VendorNumber = x.VendorNumber }, NoFreight) } :
            ps \in PurchaseSummary(d) }

SummaryColumns ==
    <<"VendorNumber", "VendorName", "Brand", "Description", "PurchasePrice",
      "ActualPrice", "Volume", "TotalPurchaseQuantity", "TotalPurchaseDollars",
      "TotalSalesQuantity", "TotalSalesDollars", "TotalSalesPrice", "TotalExciseTax",
      "FreightCost">>

\* the SELECT list
SelectRow(t) ==
    LET ps == t[1]
        ss == t[2]
        fs == t[3]
    IN [VendorNumber |-> Num(ps.key.VendorNumber),
        VendorName |-> ps.key.VendorName,
        Brand |-> Num(ps.key.Brand),
        Description |-> ps.key.Description,
        PurchasePrice |-> Num(ps.key.PurchasePrice),
        ActualPrice |-> Num(ps.key.ActualPrice),
        Volume |-> ps.key.Volume,
        TotalPurchaseQuantity |-> Num(ps.TotalPurchaseQuantity),
        TotalPurchaseDollars |-> Num(ps.TotalPurchaseDollars),
        TotalSalesQuantity |-> ss.TotalSalesQuantity,
        TotalSalesDollars |-> ss.TotalSalesDollars,
        TotalSalesPrice |-> ss.TotalSalesPrice,
        TotalExciseTax |-> ss.TotalExciseTax,
        FreightCost |-> fs.FreightCost]

RECURSIVE Orderings(_)
\* ORDER BY ps.TotalPurchaseDollars DESC: every order of the joined rows
\* that is descending in TotalPurchaseDollars (ties in any order)
Orderings(S) ==
    IF S = {} THEN { <<>> }
    ELSE UNION { { <<t>> \o rest : rest \in Orderings(S \ {t}) } :
                 t \in { x \in S : \A y \in S :
                           x[1].TotalPurchaseDollars >= y[1].TotalPurchaseDollars } }

\* the DataFrames pd.read_sql_query can return for the query
QueryResults(d) ==
    { [columns |-> SummaryColumns,
       index |-> [i \in 1..Len(o) |-> i - 1],
       rows |-> [i \in 1..Len(o) |-> SelectRow(o[i])]] : o \in Orderings(JoinedRows(d)) }


\* ---------------------------------------------------------------------------
\* clean_data
\* ---------------------------------------------------------------------------
NoFrame == << >>
IsFrame(x) == "rows" \in DOMAIN x

\* frame[col] = values
SetColumn(frame, col, values) ==
    [frame EXCEPT !.rows = [i \in DOMAIN frame.rows |->
                               [frame.rows[i] EXCEPT ![col] = values[i]]]]

\* fillna(0) of one cell
FillNa(c) == IF IsNull(c) THEN Num(0) ELSE c

\* df.fillna(0, inplace=True)
FillFrame(frame) ==
    [frame EXCEPT !.rows = [i \in DOMAIN frame.rows |->
                               [c \in DOMAIN frame.rows[i] |-> FillNa(frame.rows[i][c])]]]

\* .str is refused on a column that holds values but no string
HasStrAccessor(frame, col) ==
    frame.rows = <<>> \/ \E i \in DOMAIN frame.rows : IsText(frame.rows[i][col])

\* .str.strip() of one cell: a value that is not a string becomes NaN
StripCell(c) == IF IsText(c) THEN Str(Strip(c.str)) ELSE NaN

ComputedColumns == <<"GrossProfit", "ProfitMargin", "StockTurnover", "SalesToPurchaseRatio">>

\* the object the name vendor_sales_summary resolves to inside clean_data:
\* a module global, never the parameter df
Target(arg, glob) == [bound |-> glob.binding # "unbound", same |-> glob.binding = "same"]

\* lines 92-95 applied to the frame g
WithComputed(g) ==
    [g EXCEPT
       !.columns = g.columns \o SelectSeq(ComputedColumns,
                                          LAMBDA c : \A k \in DOMAIN g.columns : g.columns[k] # c),
       !.rows = [i \in DOMAIN g.rows |->
                   LET r == g.rows[i]
                       gp == Sub(r.TotalSalesDollars, r.TotalPurchaseDollars)
                   IN ("GrossProfit" :> gp) @@
                      ("ProfitMargin" :> Times100(Div(gp, r.TotalSalesDollars))) @@
                      ("StockTurnover" :> Div(r.TotalSalesQuantity, r.TotalPurchaseQuantity)) @@
                      ("SalesToPurchaseRatio" :>
                           Div(r.TotalSalesDollars, r.TotalPurchaseDollars)) @@
                      r]]

\* clean_data(df) in an environment glob = [binding, frame]: the exception or
\* "returned", the argument object as the call leaves it, and the global's
\* object as the call leaves it
clean_data(arg, glob) ==
    IF ~IsFrame(arg)
    THEN [status |-> "TypeError", df |-> arg, g |-> glob.frame]
    ELSE IF \E i \in DOMAIN arg.rows : ~CanFloat(arg.rows[i].Volume)
    THEN [status |-> "ValueError", df |-> arg, g |-> glob.frame]
    ELSE
    LET f1 == SetColumn(arg, "Volume",
                        [i \in DOMAIN arg.rows |-> ToFloat(arg.rows[i].Volume)])
        f2 == FillFrame(f1)
        f3 == SetColumn(f2, "VendorName",
                        [i \in DOMAIN f2.rows |-> StripCell(f2.rows[i].VendorName)])
        f4 == SetColumn(f3, "Description",
                        [i \in DOMAIN f3.rows |-> StripCell(f3.rows[i].Description)])
        tgt == Target(arg, glob)
    IN IF ~HasStrAccessor(f2, "VendorName")
       THEN [status |-> "AttributeError", df |-> f2, g |-> glob.frame]
       ELSE IF ~HasStrAccessor(f3, "Description")
       THEN [status |-> "AttributeError", df |-> f3, g |-> glob.frame]
       ELSE IF ~tgt.bound
       THEN [status |-> "NameError", df |-> f4, g |-> glob.frame]
       ELSE IF tgt.same
       THEN [status |-> "returned", df |-> WithComputed(f4), g |-> glob.frame]
       ELSE [status |-> "returned", df |-> f4, g |-> WithComputed(glob.frame)]

\* ---------------------------------------------------------------------------
\* Uses of get_vendor_summary.py
\* ---------------------------------------------------------------------------
\* compiling the file: line 15, the first statement of create_vendor_summary
\* after the docstring, is indented deeper than the docstring ("unexpected
\* indent"); the return of line 76 is outside the function
Compile == [ok |-> FALSE, error |-> "IndentationError"]

\* a caller imports the module to call create_vendor_summary(conn) or
\* clean_data(df): the import raises, no function object exists
ImportModule ==
    /\ mpc = "start"
    /\ cstatus = "none"
    /\ ~Compile.ok
    /\ cstatus' = Compile.error
    /\ UNCHANGED <<db, df, mpc, merror>>
    /\ UNCHANGED lvars

\* python get_vendor_summary.py: the script ends before its first statement
\* runs; no query is issued and the store is not written
RunScript ==
    /\ mpc = "start"
    /\ cstatus = "none"
    /\ ~Compile.ok
    /\ mpc' = "failed"
    /\ merror' = Compile.error
    /\ UNCHANGED <<db, df, cstatus>>
    /\ UNCHANGED lvars

LoaderIdle ==
    /\ listing = <<>>
    /\ store = << >>
    /\ lpc = "idle"
    /\ cursor = 1
    /\ log = <<>>
    /\ logMark = 0
    /\ reads = <<>>
    /\ lerror = "none"
    /\ run = 0
    /\ prevStore = << >>
    /\ dropFirst = FALSE

Init ==
    /\ db \in [purchases : TablesOf(PurchaseRows, MaxPurchases),
               purchase_prices : TablesOf(PriceRows, MaxPrices),
               Sales : TablesOf(SalesRows, MaxSales),
               vendor_invoice : TablesOf(InvoiceRows, MaxInvoices),
               vendor_sales_summary : {StaleSummary}]
    /\ df = NoFrame
    /\ cstatus = "none"
    /\ mpc = "start"
    /\ merror = "none"
    /\ LoaderIdle

Next == ImportModule \/ RunScript

Spec == Init /\ [][Next]_vars

\* ---------------------------------------------------------------------------
\* Properties of the bulk loader (checked under LoaderSpec)
\* ---------------------------------------------------------------------------
SelectedBefore(k) == { i \in 1..k : i <= Len(listing) /\ Selected(listing[i].name) }

\* the file's data as the file itself states it: header line, then the rows
HeaderOf(file) == Head(file.lines)
DataRowsOf(file) == Tail(file.lines)

\* the name with its extension stripped, as os.path.splitext strips it:
\* everything before the last dot, a leading dot not counting
LastDot(name) ==
    IF \E i \in 2..Len(name) : name[i] = "."
    THEN CHOOSE i \in 2..Len(name) :
             name[i] = "." /\ \A j \in (i + 1)..Len(name) : name[j] # "."
    ELSE 0
Stem(name) == IF LastDot(name) = 0 THEN name ELSE SubSeq(name, 1, LastDot(name) - 1)

\* the file is CSV text that pandas can read under its name: plain text, or
\* gzip data named *.gz, and not empty
Readable(file) ==
    /\ file.lines # <<>>
    /\ file.gz <=> EndsWith(file.name, GzSuffix)

\* a file on which the loop body raises: unreadable, or unwritable
Fails(file) ==
    /\ Selected(file.name)
    /\ \/ ~Readable(file)
       \/ ~Writable([columns |-> HeaderOf(file)])

\* C2: after load_raw_data completes, the table of every selected file has
\* exactly the file's columns in file order, its N rows in file order, and
\* no index column.
C2_TablesMirrorFiles ==
    lpc = "done" =>
        \A i \in SelectedBefore(Len(listing)) :
            LET name == StripLast4(listing[i].name) IN
            /\ name \in DOMAIN store
            /\ store[name].columns = HeaderOf(listing[i])
            /\ store[name].rows = DataRowsOf(listing[i])

\* C3: when the second run of load_raw_data on the unchanged directory ends,
\* the store is what it was after the first run.
C3_RerunIdempotent ==
    (run >= 2 /\ lpc \in {"done", "aborted"}) => store = prevStore

C3_Witness ==
    /\ run = 2
    /\ lpc = "done"
    /\ Cardinality(DOMAIN store) >= 2
    /\ \E n \in DOMAIN store : Len(store[n].rows) = 2

\* C4: after load_raw_data completes, the tables written are exactly the
\* selected files' names with the extension stripped.
C4_TableNamedByStem ==
    lpc = "done" =>
        DOMAIN store = { Stem(listing[i].name) : i \in SelectedBefore(Len(listing)) }

\* C9: a file on which reading or writing fails aborts the run at that file:
\* the loop never moves past it, the exception leaves load_raw_data, no later
\* file is read or written, and the closing log lines are not written.
C9_AbortAtFailingFile ==
    /\ \A i \in 1..(cursor - 1) : i <= Len(listing) => ~Fails(listing[i])
    /\ lpc = "aborted" =>
        /\ Fails(listing[cursor])
        /\ lerror # "none"
        /\ reads = [k \in 1..Cardinality(SelectedBefore(cursor)) |->
                       listing[CHOOSE i \in SelectedBefore(cursor) :
                                   Cardinality(SelectedBefore(i)) = k].name]
        /\ \A n \in DOMAIN store :
               \/ n \in DOMAIN prevStore
               \/ \E i \in SelectedBefore(cursor) : StripLast4(listing[i].name) = n
        /\ \A k \in (logMark + 1)..Len(log) : log[k].msg = "Ingesting"

C9_Witness ==
    /\ lpc = "aborted"
    /\ run = 1
    /\ cursor < Len(listing)
    /\ Selected(listing[cursor + 1].name)
    /\ ~Fails(listing[cursor + 1])

\* ---------------------------------------------------------------------------
\* Properties of the vendor summary builder (checked under Spec)
\* ---------------------------------------------------------------------------
\* a caller's attempt to use create_vendor_summary / clean_data has ended
Called == cstatus # "none"

SalesColumns ==
    {"TotalSalesQuantity", "TotalSalesDollars", "TotalSalesPrice", "TotalExciseTax"}

RowsWithPair(frame, v, b) ==
    { i \in DOMAIN frame.rows :
        frame.rows[i].VendorNumber = Num(v) /\ frame.rows[i].Brand = Num(b) }

PurchasePairs(d) == { <<ps.key.VendorNumber, ps.key.Brand>> : ps \in PurchaseSummary(d) }

\* C1: create_vendor_summary gives an output, and every (vendor, brand) pair
\* of PurchaseSummary is on exactly one of its rows.
C1_OneRowPerPair ==
    Called =>
        /\ IsFrame(df)
        /\ \A pr \in PurchasePairs(db) : Cardinality(RowsWithPair(df, pr[1], pr[2])) = 1

RECURSIVE SumSeq(_, _)
\* val[1] + ... + val[n]
SumSeq(n, val) == IF n = 0 THEN 0 ELSE SumSeq(n - 1, val) + val[n]

\* whether purchases row p belongs to the group output row r shows
InGroupOf(p, r) ==
    /\ Num(p.VendorNumber) = r.VendorNumber
    /\ p.VendorName = r.VendorName
    /\ Num(p.Brand) = r.Brand
    /\ p.Description = r.Description
    /\ Num(p.PurchasePrice) = r.PurchasePrice

\* C8: create_vendor_summary gives an output whose rows' two purchase totals
\* are the sums over the purchases rows of the row's group with
\* PurchasePrice > 0, and a (vendor, brand) all of whose purchases have a
\* non-positive price has no row.
C8_SumsOverPositiveRows ==
    Called =>
        /\ IsFrame(df)
        /\ \A i \in DOMAIN df.rows :
            LET r == df.rows[i]
                p == db.purchases
                counts(k) == InGroupOf(p[k], r) /\ p[k].PurchasePrice > 0
            IN /\ r.TotalPurchaseQuantity =
                    Num(SumSeq(Len(p), [k \in DOMAIN p |->
                                          IF counts(k) THEN p[k].Quantity ELSE 0]))
               /\ r.TotalPurchaseDollars =
                    Num(SumSeq(Len(p), [k \in DOMAIN p |->
                                          IF counts(k) THEN p[k].Dollars ELSE 0]))
        /\ \A k \in DOMAIN db.purchases :
              (\A m \in DOMAIN db.purchases :
                  (/\ db.purchases[m].VendorNumber = db.purchases[k].VendorNumber
                   /\ db.purchases[m].Brand = db.purchases[k].Brand)
                      => db.purchases[m].PurchasePrice <= 0)
              => RowsWithPair(df, db.purchases[k].VendorNumber, db.purchases[k].Brand) = {}

\* C5: when the script ends, it has completed and the store's table
\* vendor_sales_summary is the cleaned summary: the query's columns followed
\* by the four computed ones, one row per row of the query result, nothing
\* of a prior table left.
C5_MainCompletesWithSummary ==
    mpc \in {"failed", "done"} =>
        /\ mpc = "done"
        /\ db.vendor_sales_summary.columns = SummaryColumns \o ComputedColumns
        /\ \E r \in QueryResults(db) :
              Len(db.vendor_sales_summary.rows) = Len(r.rows)

\* C6: clean_data(df) returns a frame, and every row of it has GrossProfit
\* equal to its own TotalSalesDollars minus its own TotalPurchaseDollars.
C6_GrossProfitOfArgument ==
    Called =>
        /\ cstatus = "returned"
        /\ \A i \in DOMAIN df.rows :
            /\ "GrossProfit" \in DOMAIN df.rows[i]
            /\ df.rows[i]["GrossProfit"] =
                   Sub(df.rows[i].TotalSalesDollars, df.rows[i].TotalPurchaseDollars)

NoSalesMatch(d, r) ==
    \A k \in DOMAIN d.Sales :
        ~(Num(d.Sales[k].VendorNo) = r.VendorNumber /\ Num(d.Sales[k].Brand) = r.Brand)

\* C7: clean_data cleans the summary: afterwards the sales columns of a row
\* without a SalesSummary match are zero, and no column of any row is null.
C7_NoNullAnywhere ==
    Called =>
        /\ IsFrame(df)
        /\ cstatus = "returned"
        /\ \A i \in DOMAIN df.rows :
            /\ NoSalesMatch(db, df.rows[i]) =>
                   \A c \in SalesColumns : df.rows[i][c] = Num(0)
            /\ \A c \in DOMAIN df.rows[i] : ~IsNull(df.rows[i][c])

NonFinite(c) == c = NaN \/ IsInf(c)

\* C10: clean_data stores the ratios unguarded: in its result a row with
\* TotalPurchaseDollars = 0 has a non-finite SalesToPurchaseRatio, a row with
\* TotalSalesDollars = 0 (every row without a SalesSummary match) a
\* non-finite ProfitMargin, a row with TotalPurchaseQuantity = 0 a non-finite
\* StockTurnover.
C10_ZeroDenominatorNonFinite ==
    Called =>
        /\ cstatus = "returned"
        /\ IsFrame(df)
        /\ \A i \in DOMAIN df.rows :
            LET r == df.rows[i] IN
            /\ "ProfitMargin" \in DOMAIN r
            /\ r.TotalPurchaseDollars = Num(0) => NonFinite(r["SalesToPurchaseRatio"])
            /\ r.TotalSalesDollars = Num(0) => NonFinite(r["ProfitMargin"])
            /\ r.TotalPurchaseQuantity = Num(0) => NonFinite(r["StockTurnover"])
            /\ NoSalesMatch(db, r) => NonFinite(r["ProfitMargin"])

====
